---------------------------- MODULE Spec2Model ----------------------------
(***************************************************************************)
(* Model of tbl-template.py: a Database connection wrapper, the            *)
(* DatabaseQuery table/column resolver built on it, the OdsFile document   *)
(* writer and the __main__ run that ties them together.                    *)
(*                                                                         *)
(* A Python str is modelled as a sequence of one-character strings, so     *)
(* that strip, split, join, the SQL ILIKE match and the ordering used by   *)
(* sorted() are computed character by character.                           *)
(***************************************************************************)
EXTENDS Integers, Sequences, FiniteSets, TLC

VARIABLES
    catalog,    \* the database's information_schema: a set of table records
    args,       \* the parsed command line: table_list and x_columns
    tbls,       \* DatabaseQuery.tbls
    xcols,      \* DatabaseQuery.xcols
    pc,         \* position of __main__ (the last call made, for a bare Database)
    raised,     \* the exception that left the last call, NoError when none
    db,         \* the Database instance: password, conn and the connections it opened
    log,        \* the database operations attempted so far, with their outcomes
    tbl_list,   \* DatabaseQuery.tbl_list
    cols,       \* the value the last column_list call returned
    wkbook,     \* the OdsFile instance: its filename and the sheets added
    ofile       \* the output file on disk: whether it exists and what it holds

vars == <<catalog, args, tbls, xcols, pc, raised, db, log, tbl_list, cols, wkbook, ofile>>

\* Python's None, where a str or a connection may stand: a tuple that is no
\* str of the model (its element is not a character) and no connection.
None == <<"None">>

\* No exception.
NoError == "NoError"

\* Where a statement's result is used several times, the model binds it to a
\* name as the assignment does: CHOOSE r \in {F(x) : x \in {v}} : TRUE is F
\* applied to the value of v, computed once.

----------------------------------------------------------------------------
(* Python str primitives                                                   *)

\* The characters of the model in code point order (Python compares str by
\* code point): ' ' 32, '%' 37, '*' 42, ',' 44, 'X' 88, '_' 95, then a-z.
CodePoints ==
    <<" ", "%", "*", ",", "X", "_", "a", "b", "c", "d", "e", "i", "l",
      "m", "n", "o", "r", "s", "t", "x", "y">>

Ord(c) == CHOOSE k \in 1..Len(CodePoints) : CodePoints[k] = c

\* str < str: lexicographic on code points, a proper prefix first.
RECURSIVE StrLess(_, _)
StrLess(a, b) ==
    IF b = <<>> THEN FALSE
    ELSE IF a = <<>> THEN TRUE
    ELSE IF Head(a) = Head(b) THEN StrLess(Tail(a), Tail(b))
    ELSE Ord(Head(a)) < Ord(Head(b))

IsSpace(c) == c = " "

RECURSIVE LStrip(_)
LStrip(s) == IF s # <<>> /\ IsSpace(Head(s)) THEN LStrip(Tail(s)) ELSE s

RECURSIVE RStrip(_)
RStrip(s) ==
    IF s # <<>> /\ IsSpace(s[Len(s)]) THEN RStrip(SubSeq(s, 1, Len(s) - 1)) ELSE s

\* str.strip(): whitespace removed from both ends, none from the middle.
Strip(s) == RStrip(LStrip(s))

\* str.split(sep): always at least one token; empty tokens are kept.
RECURSIVE SplitAcc(_, _, _)
SplitAcc(s, sep, cur) ==
    IF s = <<>> THEN <<cur>>
    ELSE IF Head(s) = sep THEN <<cur>> \o SplitAcc(Tail(s), sep, <<>>)
    ELSE SplitAcc(Tail(s), sep, Append(cur, Head(s)))

Split(s, sep) == SplitAcc(s, sep, <<>>)

\* sep.join(parts)
RECURSIVE Join(_, _)
Join(parts, sep) ==
    IF parts = <<>> THEN <<>>
    ELSE IF Len(parts) = 1 THEN parts[1]
    ELSE parts[1] \o <<sep>> \o Join(Tail(parts), sep)

Contains(s, c) == \E k \in 1..Len(s) : s[k] = c

ToSet(seq) == {seq[k] : k \in 1..Len(seq)}

\* sorted(list(set(l))): every element once, ascending.
RECURSIVE SortedSet(_)
SortedSet(S) ==
    IF S = {} THEN <<>>
    ELSE LET Least(T) == CHOOSE x \in T : \A y \in T \ {x} : StrLess(x, y)
             Rest(T, m) == <<m>> \o SortedSet(T \ {m})
             From(T) == CHOOSE r \in {Rest(T, m) : m \in {Least(T)}} : TRUE
         IN  CHOOSE r \in {From(T) : T \in {S}} : TRUE

Sorted(l) == SortedSet(ToSet(l))

----------------------------------------------------------------------------
(* The catalog (information_schema) and the three table queries            *)

\* PostgreSQL folds ILIKE operands to one case.
Lower(c) == IF c = "X" THEN "x" ELSE c

\* string ILIKE pattern: '%' matches any run of characters, '_' any single
\* character, every other character itself, case-insensitively.
RECURSIVE ILike(_, _)
ILike(s, p) ==
    IF p = <<>> THEN s = <<>>
    ELSE IF Head(p) = "%" THEN ILike(s, Tail(p)) \/ (s # <<>> /\ ILike(Tail(s), p))
    ELSE IF s = <<>> THEN FALSE
    ELSE IF Head(p) = "_" THEN ILike(Tail(s), Tail(p))
    ELSE Lower(Head(s)) = Lower(Head(p)) /\ ILike(Tail(s), Tail(p))

Schema == "public"

\* What the catalog answers to a query q (a record naming the SELECT and its
\* parameter):
\*   tables   SELECT table_name ... WHERE table_schema = schema ORDER BY table_name
\*   match    SELECT table_name ... AND table_name ilike arg
\*   verify   SELECT * ... AND table_name = arg
\*   columns  SELECT column_name ... AND table_name = arg
\* The rows come back as a sequence: ordered by name for "tables"; the order
\* of the "match" rows is the catalog's, and since table_list sorts what it
\* collects the model lists them by name too; "columns" come in the
\* catalog's order.
\* The WHERE table_schema clause left out.
AnySchema(cat, schema) == cat

InSchema(cat, schema) == {u \in cat : u.schema = schema}

Rows(cat, schema, q) ==
    CASE q.op = "tables"  -> SortedSet({u.name : u \in InSchema(cat, schema)})
      [] q.op = "match"   ->
            SortedSet({u.name : u \in {v \in InSchema(cat, schema) : ILike(v.name, q.arg)}})
      [] q.op = "verify"  ->
            SortedSet({u.name : u \in {v \in InSchema(cat, schema) : v.name = q.arg}})
      [] q.op = "columns" ->
            LET found == {v \in InSchema(cat, schema) : v.name = q.arg}
            IN  IF found = {} THEN <<>> ELSE (CHOOSE v \in found : TRUE).cols

----------------------------------------------------------------------------
(* class Database                                                          *)
(*                                                                         *)
(* A session s is the instance together with what happened to it:          *)
(*   s.db.password  what get_password returned (a str, never None)         *)
(*   s.db.conn      None or the connection object the instance refers to   *)
(*   s.db.live      the connections this instance opened and has not closed*)
(*   s.db.opened    how many connections it has opened                     *)
(*   s.log          the connection attempts and queries made, in order     *)
(*   s.raised       NoError or the exception propagating out of the call   *)
(* Connection objects are numbered in the order psycopg2.connect made them.*)

\* Database.__init__: conn is None, the password comes from get_password.
NewDatabase ==
    [password |-> <<"p", "w">>, conn |-> None, live |-> {}, opened |-> 0]

Session(d, l) == [db |-> d, log |-> l, raised |-> NoError]

Raise(s, err) == [s EXCEPT !.raised = err]

Logged(s, op, arg, ok) ==
    [s EXCEPT !.log = Append(@, [op |-> op, arg |-> arg, ok |-> ok])]

\* conn.close() on the connection the instance refers to (closing a closed
\* connection is a no-op in psycopg2).
ConnClose(s) == [s EXCEPT !.db.live = @ \ {s.db.conn}]

\* psycopg2.connect succeeding: a new live connection, assigned to conn.
Connected(s) ==
    [s EXCEPT !.db.conn = <<"conn", s.db.opened + 1>>,
              !.db.live = @ \cup {<<"conn", s.db.opened + 1>>},
              !.db.opened = @ + 1]

\* open_db that leaves the connection referred to open.
OpenDbNoClose(s, ok) ==
    IF s.db.password # None
    THEN IF ok THEN Connected(Logged(s, "connect", <<>>, ok))
         ELSE Raise(Logged(s, "connect", <<>>, ok), "OperationalError")
    ELSE s

\* open_db: close the connection referred to, if any, then connect; a
\* failed connect re-raises psycopg2.OperationalError and assigns nothing.
open_db(s, ok) ==
    LET s1 == IF s.db.conn # None THEN ConnClose(s) ELSE s
    IN  IF s1.db.password # None
        THEN LET s2 == Logged(s1, "connect", <<>>, ok)
             IN  IF ok THEN Connected(s2) ELSE Raise(s2, "OperationalError")
        ELSE s1

\* cursor: open lazily when conn is None, then conn.cursor(), which raises
\* InterfaceError on a closed connection (AttributeError on None).
cursor(s, ok) ==
    LET s1 == IF s.db.conn = None THEN open_db(s, ok) ELSE s
    IN  IF s1.raised # NoError THEN s1
        ELSE IF s1.db.conn = None THEN Raise(s1, "AttributeError")
        ELSE IF s1.db.conn \notin s1.db.live THEN Raise(s1, "InterfaceError")
        ELSE s1

\* close: close and forget the connection referred to, if any.
close(s) ==
    IF s.db.conn # None
    THEN [ConnClose(s) EXCEPT !.db.conn = None]
    ELSE s

\* execute that answers a failing query by running it once more.
ExecuteRetry(s, q, connOk, queryOk) ==
    IF cursor(s, connOk).raised # NoError THEN cursor(s, connOk)
    ELSE IF queryOk THEN Logged(cursor(s, connOk), q.op, q.arg, TRUE)
    ELSE Logged(Logged(cursor(s, connOk), q.op, q.arg, FALSE), q.op, q.arg, TRUE)

\* execute: one cursor, one cur.execute(sql); a failing query is re-raised.
execute(s, q, connOk, queryOk) ==
    LET s1 == cursor(s, connOk)
    IN  IF s1.raised # NoError THEN s1
        ELSE LET s2 == Logged(s1, q.op, q.arg, queryOk)
             IN  IF queryOk THEN s2 ELSE Raise(s2, "QueryError")

\* A fault plan names the database operation (by its position in the log)
\* that fails; 0 names none. Under the plan, the next operation succeeds
\* unless it is the named one.
NextOk(s, failAt) == Len(s.log) + 1 # failAt

\* execute under a fault plan: the connection attempt, when one is made,
\* takes one position of the log and the query the next.
Execute(s, q, failAt) ==
    IF s.raised # NoError THEN s
    ELSE LET Query(s1) == IF s1.raised # NoError THEN s1
                          ELSE execute(s1, q, TRUE, NextOk(s1, failAt))
         IN  CHOOSE r \in {Query(s1) : s1 \in {cursor(s, NextOk(s, failAt))}} : TRUE

----------------------------------------------------------------------------
(* class DatabaseQuery                                                     *)

\* tbl.split('*') joined by '%': every '*' becomes '%'.
MatchStr(tbl) == Join(Split(tbl, "*"), "%")

\* Each of the three returns the session after its query and the value it
\* returns (the empty list stands for it when the query raised).
Returned(s, v) == [s |-> s, value |-> IF s.raised # NoError THEN <<>> ELSE v]

match_tbl(s, cat, schema, pat, failAt) ==
    Returned(Execute(s, [op |-> "match", arg |-> pat], failAt),
             Rows(cat, schema, [op |-> "match", arg |-> pat]))

\* The fetchone() test left out: every entry counts as verified.
VerifyAlways(s, cat, schema, tbl, failAt) ==
    Returned(Execute(s, [op |-> "verify", arg |-> tbl], failAt), TRUE)

\* fetchone() is None exactly when the query has no row.
verify_tbl(s, cat, schema, tbl, failAt) ==
    Returned(Execute(s, [op |-> "verify", arg |-> tbl], failAt),
             Rows(cat, schema, [op |-> "verify", arg |-> tbl]) # <<>>)

\* The for loop of table_list over the comma-split tokens: a token holding
\* '*' extends the list with its matches; every token is then verified as a
\* literal name and appended when it is one. An exception ends the loop.
RECURSIVE TableLoop(_, _, _, _, _, _)
TableLoop(s, acc, cat, schema, tables, failAt) ==
    IF tables = <<>> \/ s.raised # NoError THEN Returned(s, acc)
    ELSE LET tbl == Head(tables)
             Match == IF Contains(tbl, "*")
                      THEN match_tbl(s, cat, schema, MatchStr(tbl), failAt)
                      ELSE Returned(s, <<>>)
             Verify(m) == IF m.s.raised # NoError THEN Returned(m.s, FALSE)
                          ELSE verify_tbl(m.s, cat, schema, tbl, failAt)
             Rest(m, v) ==
                 TableLoop(v.s,
                           IF v.s.raised # NoError THEN acc
                           ELSE acc \o m.value \o (IF v.value THEN <<tbl>> ELSE <<>>),
                           cat, schema, Tail(tables), failAt)
             Then(m) == CHOOSE r \in {Rest(m, v) : v \in {Verify(m)}} : TRUE
         IN  CHOOSE r \in {Then(m) : m \in {Match}} : TRUE

\* The tokens table_list iterates over: the whole argument stripped, then
\* split on commas (the tokens themselves are not stripped).
Tokens(t) == Split(Strip(t), ",")

table_list(s, cat, schema, t, failAt) ==
    LET Listed == IF t = None
                  THEN Returned(Execute(s, [op |-> "tables", arg |-> <<>>], failAt),
                                Rows(cat, schema, [op |-> "tables", arg |-> <<>>]))
                  ELSE TableLoop(s, <<>>, cat, schema, Tokens(t), failAt)
    IN  CHOOSE l \in {Returned(r.s, Sorted(r.value)) : r \in {Listed}} : TRUE

\* __init__ keeping xcols as given.
InitXcolsRaw(x) == x

\* __init__ keeps xcols as None or stripped as a whole.
InitXcols(x) == IF x = None THEN None ELSE Strip(x)

\* column_list: the table's columns in the catalog's order, less those found
\* in xcols.split(',').
column_list(s, cat, schema, x, tbl, failAt) ==
    LET rows == Rows(cat, schema, [op |-> "columns", arg |-> tbl])
        kept == IF x = None THEN rows
                ELSE SelectSeq(rows, LAMBDA c : c \notin ToSet(Split(x, ",")))
    IN  Returned(Execute(s, [op |-> "columns", arg |-> tbl], failAt), kept)

----------------------------------------------------------------------------
(* class OdsFile                                                           *)

\* OdsFile() then open(filename): an empty spreadsheet, nothing on disk.
NewWorkbook == [open |-> TRUE, sheets |-> <<>>]

\* new_sheet: an odf Table named after the sheet, without rows.
new_sheet(sheetname) == [name |-> sheetname, rows |-> <<>>]

\* add_row_to_sheet that adds no row for an empty datarow.
AddRowUnlessEmpty(datarow, odf_table) ==
    IF datarow = <<>> THEN odf_table
    ELSE [odf_table EXCEPT !.rows =
            Append(@, [k \in 1..Len(datarow) |->
                          [valuetype |-> "string", stringvalue |-> datarow[k]]])]

\* add_row_to_sheet: one TableRow added to the table, then one string cell
\* per item of datarow, in order.
add_row_to_sheet(datarow, odf_table) ==
    [odf_table EXCEPT !.rows =
        Append(@, [k \in 1..Len(datarow) |->
                      [valuetype |-> "string", stringvalue |-> datarow[k]]])]

\* add_sheet: the table becomes the last sheet of the spreadsheet.
add_sheet(wb, odf_table) == [wb EXCEPT !.sheets = Append(@, odf_table)]

\* save_close: io.open(filename, "wb") creates the file (or raises and
\* creates nothing); write puts the whole document in it (or raises part way
\* and leaves the file incomplete).
save_close(wb, io) ==
    CASE io = "ok"           -> [exists |-> TRUE, complete |-> TRUE, sheets |-> wb.sheets]
      [] io = "write_failed" -> [exists |-> TRUE, complete |-> FALSE, sheets |-> <<>>]
      [] io = "open_failed"  -> [exists |-> FALSE, complete |-> FALSE, sheets |-> <<>>]

NoFile == [exists |-> FALSE, complete |-> FALSE, sheets |-> <<>>]

NoWorkbook == [open |-> FALSE, sheets |-> <<>>]

----------------------------------------------------------------------------
(* Bounds and inputs                                                       *)

MaxEntries == 2     \* entries of a requested table list
MaxExcluded == 2    \* entries of an exclusion list
MaxConns == 3       \* connections a bare Database instance may open
MaxLog == 6         \* database operations a bare Database instance may attempt

\* Names
x_a == <<"x", "_", "a">>
x_b == <<"x", "_", "b">>
X_a == <<"X", "_", "a">>
xya == <<"x", "y", "a">>
orders == <<"o", "r", "d", "e", "r", "s">>
old == <<"o", "l", "d">>
id == <<"i", "d">>
name == <<"n", "a", "m", "e">>
created_at == <<"c", "r", "e", "a", "t", "e", "d", "_", "a", "t">>
total == <<"t", "o", "t", "a", "l">>

Table(schema, n, c) == [schema |-> schema, name |-> n, cols |-> c]

\* All non-empty lists of at most n entries drawn from E, joined by commas.
RECURSIVE Lists(_, _)
Lists(E, n) ==
    IF n = 0 THEN {<<>>}
    ELSE Lists(E, n - 1) \cup {Append(l, e) : l \in {m \in Lists(E, n - 1) : Len(m) = n - 1}, e \in E}

Joined(E, n) == {Join(l, ",") : l \in Lists(E, n) \ {<<>>}}

\* Catalogs for table resolution: any tables of the schema among five names
\* (two of them differ by case only), beside any tables of another schema
\* (one of them a namesake).
TableCatalogs ==
    {{Table(Schema, n, <<id>>) : n \in P} \cup {Table("other", n, <<id>>) : n \in O} :
        P \in SUBSET {x_a, x_b, X_a, xya, orders}, O \in SUBSET {x_a, old}}

\* Entries of a requested table list: patterns, literal names that exist or
\* not, the empty entry, and entries with a space before or after.
TableEntries ==
    { <<"x", "_", "*">>, <<"X", "_", "*">>, <<"*", "a">>, <<"*">>,
      orders, x_a, old, <<>>,
      <<" ">> \o orders, x_a \o <<" ">>, <<" ">> \o <<"x", "_", "*">> }

TableArgs == {None} \cup Joined(TableEntries, MaxEntries)

\* Catalogs for a run: up to two tables of the schema, each with one of a
\* few column lists (a column may be named with a space, as a quoted
\* identifier).
ColumnLists ==
    { <<id, name, created_at, total>>, <<total, <<" ">> \o id, id>>, <<>> }

RunCatalogs ==
    {{Table(Schema, orders, c) : c \in C1} \cup {Table(Schema, x_a, c) : c \in C2}
        \cup {Table("other", old, <<id>>)} :
        C1 \in {{}} \cup {{c} : c \in ColumnLists},
        C2 \in {{}} \cup {{c} : c \in ColumnLists}}

RunTableArgs ==
    {None, Join(<<<<"x", "_", "*">>, orders>>, ","), old}

ExcludedEntries ==
    {id, created_at, <<" ">> \o id, id \o <<" ">>, <<>>}

ExcludedArgs == {None} \cup Joined(ExcludedEntries, MaxExcluded)

----------------------------------------------------------------------------
(* __main__                                                                *)

InitWith(cats, targs, xargs) ==
    /\ catalog \in cats
    /\ args \in [table_list : targs, x_columns : xargs]
    /\ tbls = None
    /\ xcols = None
    /\ pc = "start"
    /\ raised = NoError
    /\ db = NewDatabase
    /\ log = <<>>
    /\ tbl_list = <<>>
    /\ cols = <<>>
    /\ wkbook = NoWorkbook
    /\ ofile = NoFile

\* An exception nobody catches ends the run.
Abort(s) ==
    /\ pc' = "aborted"
    /\ raised' = s.raised
    /\ db' = s.db
    /\ log' = s.log

\* DatabaseQuery(...): Database.__init__, the fields, then table_list.
\* failAt is the fault plan of the call.
Construct(failAt) ==
    /\ pc = "start"
    /\ \E r \in {table_list(Session(NewDatabase, <<>>), catalog, Schema,
                           args.table_list, failAt)} :
           /\ tbls' = IF args.table_list = None THEN None ELSE Strip(args.table_list)
           /\ xcols' = InitXcols(args.x_columns)
           /\ IF r.s.raised # NoError
              THEN Abort(r.s) /\ UNCHANGED tbl_list
              ELSE /\ pc' = "constructed"
                   /\ tbl_list' = r.value
                   /\ db' = r.s.db
                   /\ log' = r.s.log
                   /\ UNCHANGED raised
    /\ UNCHANGED <<catalog, args, cols, wkbook, ofile>>

\* The database operations a fault-free construction makes.
ConstructOps ==
    Len(table_list(Session(NewDatabase, <<>>), catalog, Schema, args.table_list, 0).s.log)

ConstructAny == \E failAt \in 0..ConstructOps : Construct(failAt)

\* wkbook = OdsFile(); wkbook.open(args.output_file)
OpenWorkbook ==
    /\ pc = "constructed"
    /\ wkbook' = NewWorkbook
    /\ pc' = "opened"
    /\ UNCHANGED <<catalog, args, tbls, xcols, raised, db, log, tbl_list, cols, ofile>>

\* save_close called from inside the for loop.
SaveInLoop == TRUE

\* The for loop has gone through every table of tbl_list: save_close follows it.
LoopDone == Len(wkbook.sheets) = Len(tbl_list)

\* One turn of the for loop: new_sheet, column_list, add_row_to_sheet,
\* add_sheet for the next table of tbl_list.
AddTableSheet ==
    /\ pc = "opened"
    /\ Len(wkbook.sheets) < Len(tbl_list)
    /\ \E failAt \in {0, Len(log) + 1},
          tbl \in {tbl_list[Len(wkbook.sheets) + 1]} :
         \E tbl_sheet \in {new_sheet(tbl)},
            r \in {column_list(Session(db, log), catalog, Schema, xcols, tbl, failAt)} :
             IF r.s.raised # NoError
             THEN Abort(r.s) /\ UNCHANGED <<cols, wkbook>>
             ELSE /\ cols' = r.value
                  /\ wkbook' = add_sheet(wkbook, add_row_to_sheet(r.value, tbl_sheet))
                  /\ db' = r.s.db
                  /\ log' = r.s.log
                  /\ UNCHANGED <<pc, raised>>
    /\ UNCHANGED <<catalog, args, tbls, xcols, tbl_list, ofile>>

\* wkbook.save_close()
SaveClose ==
    /\ pc = "opened"
    /\ LoopDone
    /\ \E io \in {"ok", "open_failed", "write_failed"} :
         /\ ofile' = save_close(wkbook, io)
         /\ pc' = IF io = "ok" THEN "saved" ELSE "aborted"
         /\ raised' = IF io = "ok" THEN raised ELSE "OSError"
    /\ UNCHANGED <<catalog, args, tbls, xcols, db, log, tbl_list, cols, wkbook>>

\* db_inst.close()
CloseDb ==
    /\ pc = "saved"
    /\ db' = close(Session(db, log)).db
    /\ pc' = "done"
    /\ UNCHANGED <<catalog, args, tbls, xcols, raised, log, tbl_list, cols, wkbook, ofile>>

Init == InitWith(RunCatalogs, RunTableArgs, ExcludedArgs)

Next == ConstructAny \/ OpenWorkbook \/ AddTableSheet \/ SaveClose \/ CloseDb

Spec == Init /\ [][Next]_vars

\* Table resolution alone: the constructor with every query succeeding, on
\* many catalogs and requested lists.
InitTables == InitWith(TableCatalogs, TableArgs, {None})

NextTables == Construct(0)

SpecTables == InitTables /\ [][NextTables]_vars

----------------------------------------------------------------------------
(* A bare Database instance under any sequence of calls                    *)

InitDb == InitWith({{}}, {None}, {None})

Called(callname, s) ==
    /\ pc' = callname
    /\ raised' = s.raised
    /\ db' = s.db
    /\ log' = s.log
    /\ UNCHANGED <<catalog, args, tbls, xcols, tbl_list, cols, wkbook, ofile>>

CanCall == db.opened < MaxConns /\ Len(log) + 2 <= MaxLog

CallOpenDb == CanCall /\ \E ok \in BOOLEAN : Called("open_db", open_db(Session(db, log), ok))

CallCursor == CanCall /\ \E ok \in BOOLEAN : Called("cursor", cursor(Session(db, log), ok))

CallExecute ==
    /\ CanCall
    /\ \E connOk \in BOOLEAN, queryOk \in BOOLEAN :
         Called("execute",
                execute(Session(db, log), [op |-> "tables", arg |-> <<>>], connOk, queryOk))

CallClose == CanCall /\ Called("close", close(Session(db, log)))

NextDb == CallOpenDb \/ CallCursor \/ CallExecute \/ CallClose

SpecDb == InitDb /\ [][NextDb]_vars

----------------------------------------------------------------------------
(* Table resolution (SpecTables)                                           *)

\* The names of the tables of the schema, read off the catalog.
SchemaTables == {u.name : u \in {v \in catalog : v.schema = Schema}}

\* A list of str is strictly ascending: sorted, and no name twice.
Ascending(l) == \A k \in 1..(Len(l) - 1) : StrLess(l[k], l[k + 1])

\* What table_list returns for a requested list t when every query succeeds.
Resolve(t) == table_list(Session(NewDatabase, <<>>), catalog, Schema, t, 0).value

Constructed == pc = "constructed"

Requested == args.table_list # None

\* C1: with no requested list (tbls is None), tbl_list holds exactly the
\* names of the tables of the schema, each once, none of another schema, in
\* ascending order.
C1_AllTablesOfSchema ==
    (Constructed /\ ~Requested) =>
        /\ ToSet(tbl_list) = SchemaTables
        /\ Ascending(tbl_list)

\* C1 witness: no list requested, several tables listed, and the catalog
\* holds a table of another schema that is not listed.
C1_Witness ==
    /\ Constructed /\ ~Requested
    /\ Len(tbl_list) >= 2
    /\ \E u \in catalog : u.schema # Schema /\ u.name \notin ToSet(tbl_list)

\* name matches entry when only '*' is a wildcard (any run of characters)
\* and every other character of the entry stands for itself, in either case.
RECURSIVE Glob(_, _)
Glob(n, entry) ==
    IF entry = <<>> THEN n = <<>>
    ELSE IF Head(entry) = "*" THEN Glob(n, Tail(entry)) \/ (n # <<>> /\ Glob(Tail(n), entry))
    ELSE IF n = <<>> THEN FALSE
    ELSE Lower(Head(n)) = Lower(Head(entry)) /\ Glob(Tail(n), Tail(entry))

\* The tables an entry stands for: those it matches as a pattern when it
\* holds '*', and itself when it is the name of a table.
EntryTables(entry) ==
    {n \in SchemaTables : (Contains(entry, "*") /\ Glob(n, entry)) \/ n = entry}

\* C2: for a requested list, tbl_list is the ascending, duplicate-free list
\* of the union over the entries of the tables each entry stands for: its
\* '*'-pattern matches, case-insensitive, and itself when it names a table.
C2_UnionOfEntryMatches ==
    (Constructed /\ Requested) =>
        /\ ToSet(tbl_list) = UNION {EntryTables(e) : e \in ToSet(Tokens(args.table_list))}
        /\ Ascending(tbl_list)

\* The requested list with whitespace trimmed from each of its entries.
TrimmedEntries(t) == Join([k \in 1..Len(Split(t, ",")) |-> Strip(Split(t, ",")[k])], ",")

\* C3: a requested list resolves to the same tables as the same list with
\* the whitespace around each entry removed.
C3_EntriesTrimmed ==
    (Constructed /\ Requested) =>
        tbl_list = Resolve(TrimmedEntries(args.table_list))

\* The list l without its k-th element.
Without(l, k) == SubSeq(l, 1, k - 1) \o SubSeq(l, k + 1, Len(l))

\* Entry k of the requested list has no wildcard and names no table.
MissingLiteral(k) ==
    /\ ~Contains(Tokens(args.table_list)[k], "*")
    /\ Tokens(args.table_list)[k] \notin SchemaTables

\* C4: an entry without a wildcard that names no table of the schema is
\* dropped silently: the construction raises nothing, the entry is not in
\* tbl_list, and tbl_list is what the other entries alone resolve to.
C4_MissingLiteralDropped ==
    (pc # "start" /\ Requested) =>
        \A k \in 1..Len(Tokens(args.table_list)) :
            MissingLiteral(k) =>
                /\ Constructed
                /\ raised = NoError
                /\ Tokens(args.table_list)[k] \notin ToSet(tbl_list)
                /\ tbl_list = Sorted(TableLoop(Session(NewDatabase, <<>>), <<>>, catalog, Schema,
                                               Without(Tokens(args.table_list), k), 0).value)

\* C4 witness: a missing literal entry was dropped beside an entry that
\* resolved to a table.
C4_Witness ==
    /\ Constructed /\ Requested
    /\ \E k \in 1..Len(Tokens(args.table_list)) : MissingLiteral(k)
    /\ tbl_list # <<>>

----------------------------------------------------------------------------
(* Column resolution and the run (Spec)                                    *)

\* The columns of a table of the schema, in the catalog's order.
CatalogCols(tbl) == (CHOOSE u \in catalog : u.schema = Schema /\ u.name = tbl).cols

\* The table whose columns the last column_list call resolved.
LastTable == tbl_list[Len(wkbook.sheets)]

\* cols is the last table's columns in catalog order, less those in tokens.
ColsAreAllBut(tokens) ==
    cols = SelectSeq(CatalogCols(LastTable), LAMBDA c : c \notin tokens)

\* C5 as stated: the columns removed are those equal to a raw comma-split
\* token of the exclusion list as given; none are removed without a list.
C5_RawTokensExcluded ==
    wkbook.sheets # <<>> =>
        ColsAreAllBut(IF args.x_columns = None THEN {}
                      ELSE ToSet(Split(args.x_columns, ",")))

\* C5 amended: column_list returns the table's columns in the catalog's
\* order, less those equal to a comma-split token of the exclusion list
\* stripped of the whitespace at its two ends (the tokens themselves are not
\* trimmed); all columns without a list.
C5_TokensOfStrippedListExcluded ==
    wkbook.sheets # <<>> =>
        ColsAreAllBut(IF args.x_columns = None THEN {}
                      ELSE ToSet(Split(Strip(args.x_columns), ",")))

\* C5 witness: a list with whitespace at an end, a column removed and a
\* column kept.
C5_Witness ==
    /\ wkbook.sheets # <<>>
    /\ args.x_columns # None
    /\ Strip(args.x_columns) # args.x_columns
    /\ cols # <<>>
    /\ Len(cols) < Len(CatalogCols(LastTable))

\* The row of text cells for a list of column names.
TextRow(names) ==
    [k \in 1..Len(names) |-> [valuetype |-> "string", stringvalue |-> names[k]]]

\* C6: after a successful run the written document has one sheet per table
\* of tbl_list, in that order, named after the table, holding exactly one
\* row of text cells: the table's resolved column names in order.
C6_OneSheetPerTable ==
    pc = "done" =>
        /\ ofile.exists /\ ofile.complete
        /\ Len(ofile.sheets) = Len(tbl_list)
        /\ \A k \in 1..Len(tbl_list) :
              /\ ofile.sheets[k].name = tbl_list[k]
              /\ ofile.sheets[k].rows =
                    <<TextRow(column_list(Session(db, log), catalog, Schema, xcols,
                                          tbl_list[k], 0).value)>>

\* C6 witness: a finished run with two sheets, one with an empty row and one
\* with several cells.
C6_Witness ==
    /\ pc = "done"
    /\ Len(ofile.sheets) = 2
    /\ \E k \in 1..2 : ofile.sheets[k].rows = << <<>> >>
    /\ \E k \in 1..2 : Len(ofile.sheets[k].rows[1]) >= 2

\* The positions of the log at which a database operation failed.
Failed == {k \in 1..Len(log) : ~log[k].ok}

\* C8: a failed connection attempt or catalog query, in the constructor or
\* in the loop, reaches the top level: it is the last database operation of
\* the run and the only failed one (no retry), the run is aborted with that
\* error, and nothing more happens (no later table, no file).
C8_FailureAborts ==
    /\ [](Failed # {} =>
            /\ Failed = {Len(log)}
            /\ pc = "aborted"
            /\ raised = IF log[Len(log)].op = "connect" THEN "OperationalError"
                        ELSE "QueryError"
            /\ ~ofile.exists)
    /\ [][pc # "aborted"]_vars

\* C8 witness: a column query failed in the loop after a sheet was added.
C8_Witness ==
    /\ pc = "aborted"
    /\ log # <<>>
    /\ log[Len(log)].op = "columns" /\ ~log[Len(log)].ok
    /\ wkbook.sheets # <<>>
    /\ Len(wkbook.sheets) < Len(tbl_list)

\* C9: the output file changes only in save_close, which runs after every
\* table of tbl_list has its sheet and while the connection is still open;
\* the connection is closed only after the file is written; a run aborted by
\* a database error has no output file.
C9_SavedAfterLoopBeforeClose ==
    /\ [](/\ ofile.exists =>
                /\ [k \in 1..Len(wkbook.sheets) |-> wkbook.sheets[k].name] = tbl_list
                /\ pc \in {"saved", "done", "aborted"}
          /\ pc = "saved" => ofile.exists /\ ofile.complete /\ db.conn \in db.live
          /\ (db.opened > 0 /\ db.conn = None) => ofile.exists /\ ofile.complete
          /\ raised \in {"OperationalError", "QueryError"} => ~ofile.exists)
    /\ [][ofile' # ofile =>
            /\ pc = "opened" /\ pc' \in {"saved", "aborted"}
            /\ Len(wkbook.sheets) = Len(tbl_list)
            /\ db.conn \in db.live /\ db' = db]_vars

\* C9 witness: a finished run: two sheets written, the connection closed.
C9_Witness ==
    /\ pc = "done"
    /\ ofile.exists /\ Len(ofile.sheets) = 2
    /\ db.conn = None /\ db.live = {}

----------------------------------------------------------------------------
(* The connection handle (SpecDb)                                          *)

\* C7: at most one connection of the instance is live at any time; cursor
\* and execute open one exactly when conn is None (unless the attempt
\* fails); open_db closes the connection referred to before it opens one.
C7_AtMostOneLive ==
    /\ [](Cardinality(db.live) <= 1)
    /\ [][/\ (pc' \in {"cursor", "execute"} /\ db.conn = None) =>
                \/ /\ raised' = "OperationalError"
                   /\ db' = db
                \/ /\ db'.opened = db.opened + 1
                   /\ db'.live = {db'.conn}
          /\ (pc' \in {"cursor", "execute"} /\ db.conn # None) => db' = db
          /\ (pc' = "open_db" /\ db.conn # None) => db.conn \notin db'.live]_vars

\* C7 witness: open_db has replaced a live connection by a new one.
C7_Witness ==
    /\ pc = "open_db"
    /\ db.opened >= 2
    /\ db.live = {db.conn}

\* C10: conn is None or refers to a live connection.
C10_ConnNoneOrLive == db.conn = None \/ db.conn \in db.live

=============================================================================
